---- MODULE Spec2Model ----
(***************************************************************************)
(* A model of the counting-to-calling core of lophos:                      *)
(*   - the chunked parallel dispatcher of cli.py (_count_parallel and its  *)
(*     chunk workers) running count_peaks on per-worker BAM handles,       *)
(*   - the Benjamini-Hochberg routine utils/fdr.py:bh_fdr,                 *)
(*   - the bias classifier core/calls.py:_classify.                        *)
(* Python indices are kept 0-based where they are data (chunk index, row   *)
(* label); TLA+ sequences are 1-based, so row label k sits at position k+1.*)
(***************************************************************************)
EXTENDS Integers, Sequences, FiniteSets, TLC

\* ------------------------------------------------------------------ bounds
MaxRows == 4
MaxThreads == 3

\* ------------------------------------------------------------ small helpers
Min2(a, b) == IF a <= b THEN a ELSE b
Max2(a, b) == IF a >= b THEN a ELSE b

RECURSIVE SortedSeq(_)
\* sorted(keys): the ascending sequence of a finite set of integers.
SortedSeq(S) ==
  IF S = {} THEN <<>>
  ELSE LET lo == CHOOSE x \in S : \A y \in S : x <= y
       IN <<lo>> \o SortedSeq(S \ {lo})

RECURSIVE SeqsUpTo(_, _)
\* All sequences over S of length at most n.
SeqsUpTo(S, n) ==
  IF n = 0 THEN {<<>>}
  ELSE LET shorter == SeqsUpTo(S, n - 1)
       IN shorter \cup {Append(s, x) : s \in {t \in shorter : Len(t) = n - 1}, x \in S}

\* ------------------------------------------------------- alignment source
\* The reference names of the BAM file; fetch on another contig raises.
BamRefs == {"chr1", "chr2"}

\* A read-group tag as allele_from_rg sees it: present or not, and whether
\* MAT_RG_PATTERN / PAT_RG_PATTERN find a match in it.
TagM == [has |-> TRUE, mat |-> TRUE, pat |-> FALSE]
TagP == [has |-> TRUE, mat |-> FALSE, pat |-> TRUE]
TagBoth == [has |-> TRUE, mat |-> TRUE, pat |-> TRUE]
TagOther == [has |-> TRUE, mat |-> FALSE, pat |-> FALSE]
TagNone == [has |-> FALSE, mat |-> FALSE, pat |-> FALSE]

\* reference_end of a record that has none (unmapped, or no alignment).
NoEnd == 0 - 1

\* One record: contig, reference_start, reference_end, mapping quality,
\* is_unmapped, is_duplicate, RG tag, is_paired, the mate's contig ("*" when
\* next_reference_id < 0), next_reference_start, and the query name.
Rec(c, s, e, q, u, d, t, pr, mc, mp, qn) ==
  [chrom |-> c, rstart |-> s, rend |-> e, mapq |-> q, unmapped |-> u, dup |-> d,
   rg |-> t, paired |-> pr, mate_chrom |-> mc, mate_pos |-> mp, qname |-> qn]

\* The records of the BAM file, in file order.
BamRecords ==
  << Rec("chr1", 0, 2, 60, FALSE, FALSE, TagM, TRUE, "chr1", 6, 1),
     Rec("chr1", 0, 3, 60, FALSE, FALSE, TagOther, TRUE, "chr1", 7, 2),
     Rec("chr1", 1, 3, 60, FALSE, FALSE, TagP, TRUE, "chr1", 3, 3),
     Rec("chr1", 2, 4, 60, FALSE, TRUE, TagM, TRUE, "chr1", 5, 4),
     Rec("chr1", 2, NoEnd, 60, TRUE, FALSE, TagM, TRUE, "chr1", 6, 6),
     Rec("chr1", 3, 5, 10, FALSE, FALSE, TagP, TRUE, "chr1", 1, 3),
     Rec("chr1", 4, 6, 60, FALSE, FALSE, TagM, FALSE, "*", 0, 7),
     Rec("chr1", 4, 6, 60, FALSE, FALSE, TagP, TRUE, "*", 0, 8),
     Rec("chr1", 5, NoEnd, 60, FALSE, FALSE, TagP, FALSE, "*", 0, 9),
     Rec("chr1", 5, 7, 60, FALSE, FALSE, TagM, TRUE, "chr1", 2, 4),
     Rec("chr1", 6, 8, 60, FALSE, FALSE, TagM, TRUE, "chr1", 0, 1),
     Rec("chr1", 6, 9, 60, FALSE, FALSE, TagBoth, TRUE, "chr1", 1, 5),
     Rec("chr1", 7, 9, 60, FALSE, FALSE, TagNone, TRUE, "chr1", 0, 2),
     Rec("chr1", 8, 9, 60, FALSE, FALSE, TagP, TRUE, "chr2", 1, 10),
     Rec("chr2", 1, 3, 60, FALSE, FALSE, TagP, TRUE, "chr1", 8, 10) >>

\* The keyword arguments phase passes on to the counting function.
Kwargs == [mapq |-> 30, window_bp |-> 2, keep_dups |-> FALSE]

\* bam.fetch(chrom, start, end): the records of the contig overlapping
\* [start, end), in file order.  Defined only for a contig of the file.
fetch(chrom, start, end) ==
  SelectSeq(BamRecords,
            LAMBDA r : /\ r.chrom = chrom
                       /\ r.rstart < end
                       /\ (IF r.rend = NoEnd THEN r.rstart + 1 ELSE r.rend) > start)

fetch_raises(chrom) == chrom \notin BamRefs

\* The resolver with the maternal pattern tried first, whatever the
\* paternal pattern says.
allele_from_rg_maternal_first(aln) ==
  IF ~aln.rg.has THEN "None"
  ELSE IF aln.rg.mat THEN "maternal"
  ELSE IF aln.rg.pat THEN "paternal"
  ELSE "None"

\* bam.py:62-81
allele_from_rg(aln) ==
  IF ~aln.rg.has THEN "None"
  ELSE IF aln.rg.mat /\ ~aln.rg.pat THEN "maternal"
  ELSE IF aln.rg.pat THEN "paternal"
  ELSE "None"

\* The generator dropping the records whose quality equals the threshold.
_iter_overlaps_above(chrom, start, end, mapq, keep_dups) ==
  SelectSeq(fetch(chrom, Max2(0, start), end),
            LAMBDA aln : /\ ~(aln.unmapped \/ aln.mapq <= mapq)
                         /\ ~(~keep_dups /\ aln.dup)
                         /\ aln.rend # NoEnd
                         /\ aln.rstart < end /\ aln.rend > start)

\* counts_peaks.py:7-20
_iter_overlaps(chrom, start, end, mapq, keep_dups) ==
  SelectSeq(fetch(chrom, Max2(0, start), end),
            LAMBDA aln : /\ ~(aln.unmapped \/ aln.mapq < mapq)
                         /\ ~(~keep_dups /\ aln.dup)
                         /\ aln.rend # NoEnd
                         /\ aln.rstart < end /\ aln.rend > start)

CountAllele(alns, which) ==
  Cardinality({k \in 1..Len(alns) : allele_from_rg(alns[k]) = which})

\* row.get("name", f"peak_{idx}"): the name column when the table has one,
\* else the synthetic id built from the row's index label.
peak_id(row, hasNameCol) ==
  IF hasNameCol THEN [syn |-> FALSE, name |-> row.name, idx |-> 0]
  ELSE [syn |-> TRUE, name |-> "peak", idx |-> row.idx]

\* One iteration of count_peaks' loop over peaks.iterrows().
count_peaks_row(row, hasNameCol, kw) ==
  LET center == (row.start + row.end) \div 2
      wstart == center - kw.window_bp
      wend   == center + kw.window_bp
      alns   == _iter_overlaps(row.chrom, wstart, wend, kw.mapq, kw.keep_dups)
  IN [peak_id  |-> peak_id(row, hasNameCol),
      chrom    |-> row.chrom,
      start    |-> row.start,
      end      |-> row.end,
      maternal |-> CountAllele(alns, "maternal"),
      paternal |-> CountAllele(alns, "paternal")]

\* count_peaks on a whole table: one row per peak, in table order.
count_peaks(peaks, hasNameCol, kw) ==
  [k \in 1..Len(peaks) |-> count_peaks_row(peaks[k], hasNameCol, kw)]

\* ------------------------------------------------------------ feature table
\* The peaks a table may hold (coordinates and name column value).
PeakPool ==
  { [chrom |-> "chr1", start |-> 0, end |-> 4, name |-> "a"],
    [chrom |-> "chr1", start |-> 4, end |-> 8, name |-> "b"],
    [chrom |-> "chrUn", start |-> 0, end |-> 4, name |-> "c"] }

\* read_bed gives the table a RangeIndex: row k (0-based) has label k.
WithIndex(rows) ==
  [k \in 1..Len(rows) |->
     [idx |-> k - 1, chrom |-> rows[k].chrom, start |-> rows[k].start,
      end |-> rows[k].end, name |-> rows[k].name]]

Tables == {WithIndex(rows) : rows \in SeqsUpTo(PeakPool, MaxRows)}

\* ------------------------------------------------------------------ state
VARIABLES
  df,        \* the feature table handed to _count_parallel
  hasName,   \* whether the table has a "name" column
  threads,   \* the worker count
  pc,        \* where the calling thread is in _count_parallel
  ci,        \* the submit loop's i
  futures,   \* the futures list: chunk indices in submission order
  fi,        \* position of the collect loop in futures (1-based)
  wpc,       \* per chunk worker: "none", "queued", "running", "done", "failed"
  wsub,      \* per chunk worker: its sub-table
  wrows,     \* per chunk worker: the rows counted so far
  whandle,   \* per chunk worker: the handle it opened
  seqhandle, \* the sequential path: the handle the caller opened
  handles,   \* every handle opened so far: who opened it, who fetched on it
  results,   \* the results dict: chunk index -> part table
  finished,  \* chunk indices in the order their futures completed
  seqrows,   \* the sequential path: rows counted so far
  ret,       \* the table returned to the caller
  pvals,     \* bh_fdr: the input p-values
  indexed,   \* bh_fdr: sorted(enumerate(p))
  fdr,       \* bh_fdr: the output list
  prev,      \* bh_fdr: the running minimum
  rank,      \* bh_fdr: the loop's rank
  fpc,       \* bh_fdr: position in the function
  cin,       \* _classify: its arguments
  cout,      \* _classify: its return value ("" before the call)
  df_counts,    \* stats: the count table, one row per feature
  kind,         \* stats: "peaks" or "loops"
  hasAmbiguous, \* stats: whether a loop count table has ambiguous_pairs
  thresholds,   \* stats: the BiasThresholds of the run
  stats_df,     \* stats: the table compute_*_stats returned
  calls_df,     \* stats: the table call_bias_for_* returned
  stage,        \* stats: "counts", "stats", "calls"
  run_pseudocount, \* stats: constants.PSEUDOCOUNT as the command has set it
  kfeat,     \* counting: "peaks" for count_peaks, "loops" for count_loops
  ktable,    \* counting: the feature table
  kname,     \* counting: whether the table has a "name" column
  kkw,       \* counting: mapq, window_bp or anchor_pad, keep_dups
  krow,      \* counting: the row of the table the outer loop is at
  kalns,     \* counting: the records the inner loop iterates over
  kpos,      \* counting: the inner loop's position in kalns
  kaln,      \* counting: the record the inner loop looked at last
  kallele,   \* counting: what allele_from_rg returned for it ("" if not called)
  kcnt,      \* counting: the counters of the current row
  kout,      \* counting: the rows list
  kpc,       \* counting: "row", "records", "done", "raised"
  loop_calls,   \* validation: the table handed to run_local_validation
  hasM,         \* validation: whether it has a column m
  hasP,         \* validation: whether it has a column p
  vout,         \* validation: the table returned
  vpc,          \* validation: "call", "done"
  peak_cols,      \* phase: the number of columns of the peaks file
  loop_cols,      \* phase: the number of columns of the loops file
  npeaks,         \* phase: the number of rows of the peaks file
  nloops,         \* phase: the number of rows of the loops file
  threads_param,  \* phase: params["threads"]
  validate_loops, \* phase: params["validate_loops"]
  ppc,            \* phase: where the command is
  opened,         \* phase: alignment-source handles opened so far
  closed,         \* phase: alignment-source handles closed so far
  fetched,        \* phase: fetch calls made so far
  validated,      \* phase: whether run_local_validation has run
  perr,           \* phase: the exception that ended the command ("" if none)
  params,         \* phase: the resolved maternal_rgid, paternal_rgid, pseudocount
  globals         \* phase: the module-level values, each with its writes so far

dvars == <<df, hasName, threads, pc, ci, futures, fi, wpc, wsub, wrows, whandle, seqhandle,
           handles, results, finished, seqrows, ret>>
fvars == <<pvals, indexed, fdr, prev, rank, fpc>>
cvars == <<cin, cout>>
svars == <<df_counts, kind, hasAmbiguous, thresholds, stats_df, calls_df, stage,
           run_pseudocount>>
kvars == <<kfeat, ktable, kname, kkw, krow, kalns, kpos, kaln, kallele, kcnt, kout, kpc>>
ovars == <<dvars, fvars, cvars>>
vvars == <<loop_calls, hasM, hasP, vout, vpc>>
hvars == <<peak_cols, loop_cols, npeaks, nloops, threads_param, validate_loops, ppc,
           opened, closed, fetched, validated, perr, params, globals>>
xvars == <<svars, kvars, vvars, hvars>>
restS == <<ovars, kvars, vvars, hvars>>
restK == <<ovars, svars, vvars, hvars>>
restV == <<ovars, svars, kvars, hvars>>
restH == <<ovars, svars, kvars, vvars>>
vars == <<ovars, xvars>>

IdleStats ==
  /\ df_counts = <<>> /\ kind = "idle" /\ hasAmbiguous = FALSE /\ thresholds = <<>>
  /\ stats_df = <<>> /\ calls_df = <<>> /\ stage = "idle" /\ run_pseudocount = 0

IdleCount ==
  /\ kfeat = "idle" /\ ktable = <<>> /\ kname = FALSE /\ kkw = <<>> /\ krow = 0
  /\ kalns = <<>> /\ kpos = 0 /\ kaln = <<>> /\ kallele = "" /\ kcnt = <<>>
  /\ kout = <<>> /\ kpc = "idle"

IdleValidate ==
  /\ loop_calls = <<>> /\ hasM = FALSE /\ hasP = FALSE /\ vout = <<>> /\ vpc = "idle"

IdlePhase ==
  /\ peak_cols = 0 /\ loop_cols = 0 /\ npeaks = 0 /\ nloops = 0 /\ threads_param = 0
  /\ validate_loops = "" /\ ppc = "idle" /\ opened = 0 /\ closed = 0 /\ fetched = 0
  /\ validated = FALSE /\ perr = "" /\ params = <<>> /\ globals = <<>>

IdleX == IdleStats /\ IdleCount /\ IdleValidate /\ IdlePhase

\* ------------------------------------------------------------- dispatcher
\* Thread identities: the caller of _count_parallel, and chunk worker i.
MainTid == 0
Tid(i) == i + 1

\* A chunk size rounded down instead of up.
chunk_size_floor == Len(df) \div threads

\* math.ceil(len(df) / threads)
chunk_size == (Len(df) + threads - 1) \div threads

chunk_start(i) == i * chunk_size
chunk_end(i) == Min2((i + 1) * chunk_size, Len(df))

\* A slice whose index labels restart at 0 (a reset_index on the chunk).
iloc_reset(table, start, end) ==
  [k \in 1..(end - start) |-> [table[start + k] EXCEPT !.idx = k - 1]]

\* df.iloc[start:end].copy(): the rows at 0-based positions start..end-1,
\* each keeping its index label.
iloc(table, start, end) == SubSeq(table, start + 1, end)

\* One handle object kept and handed to every caller.
open_bam_shared(tid) == 0

\* bam_io.open_bam: a new handle object on every call.  The handle a thread's
\* call creates is named after that thread.
open_bam(tid) == tid

\* Per handle: the threads that got it from open_bam, the threads that
\* fetched on it, and how often it was opened and closed.
NoHandles ==
  [h \in 0..MaxThreads |-> [openers |-> {}, users |-> {}, opens |-> 0, closes |-> 0]]

Opened(hs, h, tid) ==
  [hs EXCEPT ![h].openers = @ \cup {tid}, ![h].opens = @ + 1]
Used(hs, h, tid) == [hs EXCEPT ![h].users = @ \cup {tid}]
Closed(hs, h) == [hs EXCEPT ![h].closes = @ + 1]

\* A result() that hands back whatever the worker had, failed or not.
fut_result_swallow(st) == "value"

\* fut.result(): the chunk's part table, or the worker's exception re-raised.
fut_result(st) == IF st = "failed" THEN "raise" ELSE "value"

\* The parts taken in the order the futures completed.
concat_order_arrival(keys, arrival) ==
  SelectSeq(arrival, LAMBDA i : i \in keys)

\* sorted(results.keys()): the order the parts are concatenated in.
concat_order(keys, arrival) == SortedSeq(keys)

RECURSIVE concat(_, _)
\* pd.concat([results[i] for i in order], ignore_index=True)
concat(res, order) ==
  IF order = <<>> THEN <<>> ELSE res[Head(order)] \o concat(res, Tail(order))

NoWorkers == [i \in 0..(MaxThreads - 1) |-> "none"]

InitDispatch ==
  /\ df \in Tables
  /\ hasName \in BOOLEAN
  /\ threads \in 1..MaxThreads
  /\ pc = "start"
  /\ ci = 0
  /\ futures = <<>>
  /\ fi = 1
  /\ wpc = NoWorkers
  /\ wsub = [i \in 0..(MaxThreads - 1) |-> <<>>]
  /\ wrows = [i \in 0..(MaxThreads - 1) |-> <<>>]
  /\ whandle = [i \in 0..(MaxThreads - 1) |-> 0]
  /\ seqhandle = 0
  /\ handles = NoHandles
  /\ results = <<>>
  /\ finished = <<>>
  /\ seqrows = <<>>
  /\ ret = <<>>

\* cli.py:124-125, the sequential path: one handle, opened by the caller.
SeqOpen ==
  /\ pc = "start"
  /\ threads <= 1 \/ Len(df) = 0
  /\ handles' = Opened(handles, open_bam(MainTid), MainTid)
  /\ seqhandle' = open_bam(MainTid)
  /\ pc' = "seq"
  /\ UNCHANGED <<xvars, fvars, cvars, df, hasName, threads, ci, futures, fi, wpc, wsub, wrows, whandle,
                 results, finished, seqrows, ret>>

\* cli.py:129, one row of func(bam=handle, peaks=df) that counts.
SeqCount ==
  /\ pc = "seq"
  /\ Len(seqrows) < Len(df)
  /\ LET row == df[Len(seqrows) + 1]
     IN /\ ~fetch_raises(row.chrom)
        /\ handles' = Used(handles, seqhandle, MainTid)
        /\ seqrows' = Append(seqrows, count_peaks_row(row, hasName, Kwargs))
  /\ UNCHANGED <<xvars, fvars, cvars, seqhandle, df, hasName, threads, pc, ci, futures, fi, wpc, wsub, wrows, whandle,
                 results, finished, ret>>

\* cli.py:129-132, a row whose fetch raises: the handle is closed and the
\* exception leaves _count_parallel.
SeqRaise ==
  /\ pc = "seq"
  /\ Len(seqrows) < Len(df)
  /\ fetch_raises(df[Len(seqrows) + 1].chrom)
  /\ handles' = Closed(Used(handles, seqhandle, MainTid), seqhandle)
  /\ pc' = "raised"
  /\ UNCHANGED <<xvars, fvars, cvars, seqhandle, df, hasName, threads, ci, futures, fi, wpc, wsub, wrows, whandle,
                 results, finished, seqrows, ret>>

\* cli.py:130-132, return result_df through the finally.
SeqReturn ==
  /\ pc = "seq"
  /\ Len(seqrows) = Len(df)
  /\ handles' = Closed(handles, seqhandle)
  /\ ret' = seqrows
  /\ pc' = "returned"
  /\ UNCHANGED <<xvars, fvars, cvars, seqhandle, df, hasName, threads, ci, futures, fi, wpc, wsub, wrows, whandle,
                 results, finished, seqrows>>

\* cli.py:135-138, entering the executor.
ParStart ==
  /\ pc = "start"
  /\ ~(threads <= 1 \/ Len(df) = 0)
  /\ pc' = "submit"
  /\ ci' = 0
  /\ UNCHANGED <<xvars, fvars, cvars, seqhandle, df, hasName, threads, futures, fi, wpc, wsub, wrows, whandle,
                 handles, results, finished, seqrows, ret>>

\* cli.py:139-155, one turn of the submit loop that submits chunk i.
Submit ==
  /\ pc = "submit"
  /\ ci < threads
  /\ chunk_start(ci) < chunk_end(ci)
  /\ wsub' = [wsub EXCEPT ![ci] = iloc(df, chunk_start(ci), chunk_end(ci))]
  /\ wpc' = [wpc EXCEPT ![ci] = "queued"]
  /\ futures' = Append(futures, ci)
  /\ ci' = ci + 1
  /\ UNCHANGED <<xvars, fvars, cvars, seqhandle, df, hasName, threads, pc, fi, wrows, whandle, handles, results,
                 finished, seqrows, ret>>

\* cli.py:142-143, an empty chunk is skipped.
SubmitSkip ==
  /\ pc = "submit"
  /\ ci < threads
  /\ chunk_start(ci) >= chunk_end(ci)
  /\ ci' = ci + 1
  /\ UNCHANGED <<xvars, fvars, cvars, seqhandle, df, hasName, threads, pc, futures, fi, wpc, wsub, wrows, whandle,
                 handles, results, finished, seqrows, ret>>

\* cli.py:156, the submit loop is over.
SubmitDone ==
  /\ pc = "submit"
  /\ ci >= threads
  /\ pc' = "collect"
  /\ fi' = 1
  /\ UNCHANGED <<xvars, fvars, cvars, seqhandle, df, hasName, threads, ci, futures, wpc, wsub, wrows, whandle,
                 handles, results, finished, seqrows, ret>>

\* cli.py:70, a pool thread starts the chunk and opens its own handle.
WorkerOpen(i) ==
  /\ wpc[i] = "queued"
  /\ LET h == open_bam(Tid(i))
     IN /\ handles' = Opened(handles, h, Tid(i))
        /\ whandle' = [whandle EXCEPT ![i] = h]
  /\ wpc' = [wpc EXCEPT ![i] = "running"]
  /\ UNCHANGED <<xvars, fvars, cvars, seqhandle, df, hasName, threads, pc, ci, futures, fi, wsub, wrows, results,
                 finished, seqrows, ret>>

\* cli.py:76, one row of func(bam=handle, peaks=subdf) that counts.
WorkerCount(i) ==
  /\ wpc[i] = "running"
  /\ Len(wrows[i]) < Len(wsub[i])
  /\ LET row == wsub[i][Len(wrows[i]) + 1]
     IN /\ ~fetch_raises(row.chrom)
        /\ handles' = Used(handles, whandle[i], Tid(i))
        /\ wrows' = [wrows EXCEPT ![i] = Append(@, count_peaks_row(row, hasName, Kwargs))]
  /\ UNCHANGED <<xvars, fvars, cvars, seqhandle, df, hasName, threads, pc, ci, futures, fi, wpc, wsub, whandle,
                 results, finished, seqrows, ret>>

\* cli.py:76-79, a row whose fetch raises: the finally closes the handle and
\* the future completes with the exception.
WorkerRaise(i) ==
  /\ wpc[i] = "running"
  /\ Len(wrows[i]) < Len(wsub[i])
  /\ fetch_raises(wsub[i][Len(wrows[i]) + 1].chrom)
  /\ handles' = Closed(Used(handles, whandle[i], Tid(i)), whandle[i])
  /\ wpc' = [wpc EXCEPT ![i] = "failed"]
  /\ finished' = Append(finished, i)
  /\ UNCHANGED <<xvars, fvars, cvars, seqhandle, df, hasName, threads, pc, ci, futures, fi, wsub, wrows, whandle,
                 results, seqrows, ret>>

\* cli.py:77-79, return idx, result_df through the finally: the future
\* completes with the part table.
WorkerReturn(i) ==
  /\ wpc[i] = "running"
  /\ Len(wrows[i]) = Len(wsub[i])
  /\ handles' = Closed(handles, whandle[i])
  /\ wpc' = [wpc EXCEPT ![i] = "done"]
  /\ finished' = Append(finished, i)
  /\ UNCHANGED <<xvars, fvars, cvars, seqhandle, df, hasName, threads, pc, ci, futures, fi, wsub, wrows, whandle,
                 results, seqrows, ret>>

\* cli.py:156-158, one turn of "for fut in futures": fut.result() blocks until
\* the future is complete, then stores the part or re-raises.
Collect ==
  /\ pc = "collect"
  /\ fi <= Len(futures)
  /\ LET idx == futures[fi]
     IN /\ wpc[idx] \in {"done", "failed"}
        /\ IF fut_result(wpc[idx]) = "raise"
           THEN /\ pc' = "unwinding"
                /\ UNCHANGED <<fi, results>>
           ELSE /\ results' = [k \in (DOMAIN results) \cup {idx} |->
                                 IF k = idx THEN wrows[idx] ELSE results[k]]
                /\ fi' = fi + 1
                /\ pc' = pc
  /\ UNCHANGED <<xvars, fvars, cvars, seqhandle, df, hasName, threads, ci, futures, wpc, wsub, wrows, whandle,
                 handles, finished, seqrows, ret>>

\* An executor shut down without waiting for its workers.
AllWorkersOver_nowait == TRUE

\* concurrent.futures: leaving the with block calls shutdown(wait=True).
AllWorkersOver == \A i \in 0..(MaxThreads - 1) : wpc[i] \in {"none", "done", "failed"}

\* cli.py:137, leaving the with block on an exception: the executor's
\* shutdown(wait=True) joins every worker, then the exception propagates.
Unwind ==
  /\ pc = "unwinding"
  /\ AllWorkersOver
  /\ pc' = "raised"
  /\ UNCHANGED <<xvars, fvars, cvars, seqhandle, df, hasName, threads, ci, futures, fi, wpc, wsub, wrows, whandle,
                 handles, results, finished, seqrows, ret>>

\* cli.py:158-163, the collect loop is over: the with block is left (every
\* future has completed) and the parts are concatenated.  pd.concat raises on
\* an empty list of parts.
Concat ==
  /\ pc = "collect"
  /\ fi > Len(futures)
  /\ AllWorkersOver
  /\ IF DOMAIN results = {}
     THEN pc' = "raised" /\ ret' = ret
     ELSE /\ ret' = concat(results, concat_order(DOMAIN results, finished))
          /\ pc' = "returned"
  /\ UNCHANGED <<xvars, fvars, cvars, seqhandle, df, hasName, threads, ci, futures, fi, wpc, wsub, wrows, whandle,
                 handles, results, finished, seqrows>>

IdleFdr ==
  /\ pvals = <<>> /\ indexed = <<>> /\ fdr = <<>> /\ prev = <<1, 1>> /\ rank = 0
  /\ fpc = "idle"

IdleClassify == cin = <<>> /\ cout = "idle"

NextDispatch ==
  \/ SeqOpen \/ SeqCount \/ SeqRaise \/ SeqReturn
  \/ ParStart \/ Submit \/ SubmitSkip \/ SubmitDone
  \/ \E i \in 0..(MaxThreads - 1) :
       WorkerOpen(i) \/ WorkerCount(i) \/ WorkerRaise(i) \/ WorkerReturn(i)
  \/ Collect \/ Unwind \/ Concat

Init == InitDispatch /\ IdleFdr /\ IdleClassify /\ IdleX

Next == NextDispatch

Spec == Init /\ [][Next]_vars

\* ---------------------------------------------------------------- bh_fdr
\* p-values are the fractions k/PGrid, 0 <= k <= PGrid; a number is a pair
\* <<numerator, denominator>> with a positive denominator, compared exactly.
MaxPvals == 3
PGrid == 4

Frac(a, b) == <<a, b>>
FracLeq(x, y) == x[1] * y[2] <= y[1] * x[2]
FracLt(x, y) == x[1] * y[2] < y[1] * x[2]
FracEq(x, y) == x[1] * y[2] = y[1] * x[2]

PValues == {Frac(k, PGrid) : k \in 0..PGrid}

\* enumerate(p): the pairs <<index, value>>, indices from 0.
enumerate(p) == [k \in 1..Len(p) |-> <<k - 1, p[k]>>]

RECURSIVE InsertByValue(_, _)
\* Insert item after every element whose value is not greater (stable).
InsertByValue(sortedItems, item) ==
  IF sortedItems = <<>> THEN <<item>>
  ELSE IF FracLeq(Head(sortedItems)[2], item[2])
       THEN <<Head(sortedItems)>> \o InsertByValue(Tail(sortedItems), item)
       ELSE <<item>> \o sortedItems

RECURSIVE sorted_by_value(_)
\* sorted(items, key=lambda t: t[1]): a stable sort.
sorted_by_value(items) ==
  IF items = <<>> THEN <<>>
  ELSE InsertByValue(sorted_by_value(SubSeq(items, 1, Len(items) - 1)),
                     items[Len(items)])

\* The adjusted value kept as it is, without the running minimum.
running_min_dropped(a, b) == b

\* min(prev, q)
running_min(a, b) == IF FracLeq(a, b) THEN a ELSE b

\* pv * n / rank
adjusted(pv, n, rnk) == Frac(pv[1] * n, pv[2] * rnk)

InitFdr ==
  /\ pvals \in SeqsUpTo(PValues, MaxPvals)
  /\ indexed = <<>>
  /\ fdr = <<>>
  /\ prev = Frac(1, 1)
  /\ rank = 0
  /\ fpc = "start"

\* fdr.py:4-8, up to the loop.
BhStart ==
  /\ fpc = "start"
  /\ indexed' = sorted_by_value(enumerate(pvals))
  /\ fdr' = [k \in 1..Len(pvals) |-> Frac(0, 1)]
  /\ prev' = Frac(1, 1)
  /\ rank' = 1
  /\ fpc' = "loop"
  /\ UNCHANGED <<xvars, dvars, cvars, pvals>>

\* fdr.py:9-12, one turn of the loop.
BhStep ==
  /\ fpc = "loop"
  /\ rank <= Len(indexed)
  /\ LET idx == indexed[rank][1]
         pv  == indexed[rank][2]
         q   == adjusted(pv, Len(pvals), rank)
     IN /\ prev' = running_min(prev, q)
        /\ fdr' = [fdr EXCEPT ![idx + 1] = prev']
  /\ rank' = rank + 1
  /\ UNCHANGED <<xvars, dvars, cvars, pvals, indexed, fpc>>

\* fdr.py:13
BhReturn ==
  /\ fpc = "loop"
  /\ rank > Len(indexed)
  /\ fpc' = "done"
  /\ UNCHANGED <<xvars, dvars, cvars, pvals, indexed, fdr, prev, rank>>

IdleDispatch ==
  /\ df = <<>> /\ hasName = FALSE /\ threads = 1 /\ pc = "idle" /\ ci = 0
  /\ futures = <<>> /\ fi = 1 /\ wpc = NoWorkers
  /\ wsub = [i \in 0..(MaxThreads - 1) |-> <<>>]
  /\ wrows = [i \in 0..(MaxThreads - 1) |-> <<>>]
  /\ whandle = [i \in 0..(MaxThreads - 1) |-> 0]
  /\ seqhandle = 0 /\ handles = NoHandles /\ results = <<>> /\ finished = <<>>
  /\ seqrows = <<>> /\ ret = <<>>

NextFdr == BhStart \/ BhStep \/ BhReturn

InitF == InitFdr /\ IdleDispatch /\ IdleClassify /\ IdleX

SpecFdr == InitF /\ [][NextFdr]_vars

\* ------------------------------------------------------------- _classify
\* q, fdr and the ambiguous fractions are counted in hundredths, min_fold in
\* tenths, log2 ratios and min_abs_log2 in whole units.  An optional argument
\* is a record: some = FALSE stands for None.
MaxCount == 4

None == [some |-> FALSE, v |-> 0]
Some(x) == [some |-> TRUE, v |-> x]

\* constants.PSEUDOCOUNT
PSEUDOCOUNT == 1

Pow2(t) == IF t = 0 THEN 1 ELSE IF t = 1 THEN 2 ELSE IF t = 2 THEN 4 ELSE 8

\* abs(math.log2((m + PSEUDOCOUNT) / (p + PSEUDOCOUNT))) < t, t a whole
\* number: the ratio lies strictly between 2^-t and 2^t.
abs_log2_ratio_below(m, p, t) ==
  /\ (m + PSEUDOCOUNT) < Pow2(t) * (p + PSEUDOCOUNT)
  /\ (p + PSEUDOCOUNT) < Pow2(t) * (m + PSEUDOCOUNT)

Abs(x) == IF x < 0 THEN 0 - x ELSE x

\* The fold bound rounded up instead of truncated.
fold_of_ceil(n, min_fold) == (n * min_fold + 9) \div 10

\* int(n * thr.min_fold), min_fold in tenths
fold_of(n, min_fold) == (n * min_fold) \div 10

\* calls.py:73-75
low_coverage(m, p, thr) == m + p < thr.min_reads

\* The ambiguity guard with >= for >.
too_ambiguous_ge(ambiguous_frac, thr) ==
  ambiguous_frac.some /\ ambiguous_frac.v >= thr.max_ambiguous_frac

\* calls.py:78
too_ambiguous(ambiguous_frac, thr) ==
  ambiguous_frac.some /\ ambiguous_frac.v > thr.max_ambiguous_frac

_classify(m, p, q, thr, log2_ratio, ambiguous_frac) ==
  IF low_coverage(m, p, thr) THEN "Undetermined"
  ELSE IF too_ambiguous(ambiguous_frac, thr) THEN "Undetermined"
  ELSE IF q > thr.fdr THEN "Balanced"
  ELSE IF (IF log2_ratio.some THEN Abs(log2_ratio.v) < thr.min_abs_log2
           ELSE abs_log2_ratio_below(m, p, thr.min_abs_log2))
       THEN "Balanced"
  ELSE IF m >= Max2(1, fold_of(p, thr.min_fold)) THEN "Maternal"
  ELSE IF p >= Max2(1, fold_of(m, thr.min_fold)) THEN "Paternal"
  ELSE "Balanced"

Thresholds ==
  [min_reads : {0, 3, 5}, fdr : {5}, min_fold : {10, 15, 20},
   min_abs_log2 : {0, 1}, max_ambiguous_frac : {50, 100}]

ClassifyInputs ==
  [m : 0..MaxCount, p : 0..MaxCount, q : {1, 5, 10}, thr : Thresholds,
   log2_ratio : {None, Some(0 - 1), Some(0), Some(2)},
   ambiguous_frac : {None, Some(0), Some(50), Some(75)}]

InitClassify == cin \in ClassifyInputs /\ cout = ""

\* calls.py:40-100, one call.
Classify ==
  /\ cout = ""
  /\ cout' = _classify(cin.m, cin.p, cin.q, cin.thr, cin.log2_ratio, cin.ambiguous_frac)
  /\ UNCHANGED <<xvars, dvars, fvars, cin>>

NextClassify == Classify

InitC == IdleDispatch /\ IdleFdr /\ InitClassify /\ IdleX

SpecClassify == InitC /\ [][NextClassify]_vars

\* ------------------------------------------- compute_*_stats, call_bias_*
\* Counts per feature are drawn from CountValues; a table has at most
\* MaxStatRows rows.  Real numbers are exact fractions in lowest terms.
MaxStatRows == 2
CountValues == {0, 2, 10}
AmbiguousValues == {0, 2}

RECURSIVE GCD(_, _)
GCD(a, b) == IF b = 0 THEN a ELSE GCD(b, a % b)

Reduce(x) == LET g == GCD(x[1], x[2]) IN IF g = 0 THEN x ELSE Frac(x[1] \div g, x[2] \div g)

RECURSIVE TwoTo(_)
TwoTo(n) == IF n = 0 THEN 1 ELSE 2 * TwoTo(n - 1)

RECURSIVE Binom(_, _)
\* The binomial coefficient, by C(n,k) = C(n,k-1) * (n-k+1) / k.
Binom(n, k) == IF k = 0 THEN 1 ELSE (Binom(n, k - 1) * (n - k + 1)) \div k

RECURSIVE SumBinomLeq(_, _, _)
\* The sum of C(n,j), j from k to n, over the j with C(n,j) <= c.
SumBinomLeq(n, c, k) ==
  IF k > n THEN 0
  ELSE (IF Binom(n, k) <= c THEN Binom(n, k) ELSE 0) + SumBinomLeq(n, c, k + 1)

\* binomtest(k, n, 0.5, alternative="two-sided").pvalue: the mass of the
\* outcomes no more likely than k, each outcome j having mass C(n,j) / 2^n.
binomtest_pvalue(k, n) == Reduce(Frac(SumBinomLeq(n, Binom(n, k), 0), TwoTo(n)))

\* stats.py:20-21.  The value kept is the argument x of math.log2(x), so
\* log2_ratio = 0.0 is x = 1 and log2_ratio > 0 is x > 1.
\* stats.py:7 binds the name when the module is imported, so the value read
\* here is the one the constants module had then.
_log2_ratio(m, p) == Frac(m + PSEUDOCOUNT, p + PSEUDOCOUNT)

RECURSIVE bh_loop(_, _, _, _)
\* fdr.py:9-12, the loop from rank rnk on.
bh_loop(ix, rnk, prv, adj) ==
  IF rnk > Len(ix) THEN adj
  ELSE LET q  == adjusted(ix[rnk][2], Len(ix), rnk)
           pr == running_min(prv, q)
       IN bh_loop(ix, rnk + 1, pr, [adj EXCEPT ![ix[rnk][1] + 1] = pr])

\* fdr.py:3-13
bh_fdr(p) ==
  bh_loop(sorted_by_value(enumerate(p)), 1, Frac(1, 1),
          [k \in 1..Len(p) |-> Frac(0, 1)])

\* out[col] = val on one row: the row's other columns are kept.
with_column(row, col, val) ==
  [c \in (DOMAIN row) \cup {col} |-> IF c = col THEN val ELSE row[c]]

\* stats.py:29-36 and 76-82
p_value_of(m, p) == IF m + p > 0 THEN binomtest_pvalue(m, m + p) ELSE Frac(1, 1)

\* stats.py:24-43
compute_peak_stats(t) ==
  LET pv == [k \in 1..Len(t) |-> p_value_of(t[k].maternal, t[k].paternal)]
      qv == bh_fdr(pv)
  IN [k \in 1..Len(t) |->
        [id |-> t[k].id, maternal |-> t[k].maternal, paternal |-> t[k].paternal,
         total |-> t[k].maternal + t[k].paternal,
         log2_ratio |-> _log2_ratio(t[k].maternal, t[k].paternal),
         p_value |-> pv[k], fdr |-> qv[k]]]

\* The denominator used as it is.
denom_unsafe(denom) == denom

\* stats.py:69, denom.where(denom > 0, other=1)
denom_safe(denom) == IF denom > 0 THEN denom ELSE 1

\* stats.py:61-63
ambiguous_pairs_of(row) ==
  IF "ambiguous_pairs" \in DOMAIN row THEN row.ambiguous_pairs ELSE 0

\* stats.py:46-85
compute_loop_stats(t) ==
  LET pv == [k \in 1..Len(t) |-> p_value_of(t[k].maternal_pairs, t[k].paternal_pairs)]
      qv == bh_fdr(pv)
  IN [k \in 1..Len(t) |->
        LET m == t[k].maternal_pairs
            p == t[k].paternal_pairs
            a == ambiguous_pairs_of(t[k])
        IN [id |-> t[k].id, m |-> m, p |-> p, ambiguous_pairs |-> a,
            total_pairs |-> m + p,
            ambiguous_frac |-> Reduce(Frac(a, denom_safe(m + p + a))),
            log2_ratio_pairs |-> _log2_ratio(m, p),
            p_value_pairs |-> pv[k], fdr_pairs |-> qv[k]]]

\* float(q) and float(amb) on the classifier's scale of hundredths, rounded
\* up: x > h holds of the fraction exactly when it holds of the result, for
\* every whole number of hundredths h.
Hundredths(x) == (100 * x[1] + x[2] - 1) \div x[2]

RECURSIVE FloorLog2(_, _)
\* The largest t with 2^t * b <= a, for a >= b > 0.
FloorLog2(a, b) == IF 2 * b <= a THEN 1 + FloorLog2(a, 2 * b) ELSE 0

\* float(r) on the classifier's scale of whole units, cut towards zero:
\* abs(r) < t holds of the ratio exactly when it holds of the result, for
\* every whole t.
Log2Whole(x) ==
  IF x[1] >= x[2] THEN FloorLog2(x[1], x[2]) ELSE 0 - FloorLog2(x[2], x[1])

\* The calls worked out on the rows in ascending order of fdr and written
\* back by position.
call_bias_for_peaks_sorted(t, thr) ==
  LET byq == sorted_by_value([k \in 1..Len(t) |-> <<k, t[k].fdr>>])
  IN [k \in 1..Len(t) |->
        with_column(t[k], "bias_call",
          LET r == t[byq[k][1]]
          IN _classify(r.maternal, r.paternal, Hundredths(r.fdr), thr,
                       Some(Log2Whole(r.log2_ratio)), None))]

\* calls.py:103-125
call_bias_for_peaks(t, thr) ==
  [k \in 1..Len(t) |->
     with_column(t[k], "bias_call",
       _classify(t[k].maternal, t[k].paternal, Hundredths(t[k].fdr), thr,
                 Some(Log2Whole(t[k].log2_ratio)), None))]

\* calls.py:128-162
call_bias_for_loops(t, thr) ==
  [k \in 1..Len(t) |->
     with_column(t[k], "bias_call",
       _classify(t[k].m, t[k].p, Hundredths(t[k].fdr_pairs), thr,
                 Some(Log2Whole(t[k].log2_ratio_pairs)),
                 Some(Hundredths(t[k].ambiguous_frac))))]

\* calls.py:33-37, the defaults of BiasThresholds
DefaultThresholds ==
  [min_reads |-> 5, fdr |-> 5, min_fold |-> 15, min_abs_log2 |-> 0,
   max_ambiguous_frac |-> 100]

RunThresholds ==
  {DefaultThresholds,
   [min_reads |-> 3, fdr |-> 5, min_fold |-> 20, min_abs_log2 |-> 1,
    max_ambiguous_frac |-> 50]}

PeakCountRows == [maternal : CountValues, paternal : CountValues]
LoopCountRows ==
  [maternal_pairs : CountValues, paternal_pairs : CountValues,
   ambiguous_pairs : AmbiguousValues]
LoopCountRowsBare == [maternal_pairs : CountValues, paternal_pairs : CountValues]

\* The rows of a count table carry their position as id.
WithId(t) == [k \in 1..Len(t) |-> with_column(t[k], "id", k)]

\* The values --pseudocount may resolve to; cli.py:297 has stored the run's
\* value in the constants module before any statistics are computed.
PseudocountValues == {1, 2}

InitStats ==
  /\ kind \in {"peaks", "loops"}
  /\ hasAmbiguous \in BOOLEAN
  /\ kind = "peaks" => ~hasAmbiguous
  /\ \E t \in SeqsUpTo(IF kind = "peaks" THEN PeakCountRows
                       ELSE IF hasAmbiguous THEN LoopCountRows
                       ELSE LoopCountRowsBare, MaxStatRows) :
       df_counts = WithId(t)
  /\ thresholds \in RunThresholds
  /\ stats_df = <<>> /\ calls_df = <<>> /\ stage = "counts"
  /\ run_pseudocount \in PseudocountValues

\* stats.py:24-43, one call (cli.py:333 and 376)
ComputePeakStats ==
  /\ stage = "counts" /\ kind = "peaks"
  /\ stats_df' = compute_peak_stats(df_counts)
  /\ stage' = "stats"
  /\ UNCHANGED <<restS, df_counts, kind, hasAmbiguous, thresholds, calls_df, run_pseudocount>>

\* calls.py:103-125, one call (cli.py:334 and 377)
CallBiasPeaks ==
  /\ stage = "stats" /\ kind = "peaks"
  /\ calls_df' = call_bias_for_peaks(stats_df, thresholds)
  /\ stage' = "calls"
  /\ UNCHANGED <<restS, df_counts, kind, hasAmbiguous, thresholds, stats_df, run_pseudocount>>

\* stats.py:46-85, one call (cli.py:350 and 397)
ComputeLoopStats ==
  /\ stage = "counts" /\ kind = "loops"
  /\ stats_df' = compute_loop_stats(df_counts)
  /\ stage' = "stats"
  /\ UNCHANGED <<restS, df_counts, kind, hasAmbiguous, thresholds, calls_df, run_pseudocount>>

\* calls.py:128-162, one call (cli.py:351 and 398)
CallBiasLoops ==
  /\ stage = "stats" /\ kind = "loops"
  /\ calls_df' = call_bias_for_loops(stats_df, thresholds)
  /\ stage' = "calls"
  /\ UNCHANGED <<restS, df_counts, kind, hasAmbiguous, thresholds, stats_df, run_pseudocount>>

NextStats == ComputePeakStats \/ CallBiasPeaks \/ ComputeLoopStats \/ CallBiasLoops

InitS ==
  /\ IdleDispatch /\ IdleFdr /\ IdleClassify /\ InitStats /\ IdleCount /\ IdleValidate
  /\ IdlePhase

SpecStats == InitS /\ [][NextStats]_vars

\* ------------------------------------------- count_peaks and count_loops
\* The two counting functions, one record of the inner loop at a time, on
\* tables of at most MaxFeatures rows.
MaxFeatures == 2

CountPeakPool ==
  PeakPool \cup
  { [chrom |-> "chr1", start |-> 1, end |-> 2, name |-> "d"],
    [chrom |-> "chr1", start |-> 5, end |-> 9, name |-> "e"] }

PeakTables == {WithIndex(rows) : rows \in SeqsUpTo(CountPeakPool, MaxFeatures)}

PeakKwargs == [mapq : {10, 30}, window_bp : {1, 2}, keep_dups : BOOLEAN]

Loop(c1, s1, e1, c2, s2, e2, n) ==
  [chrom1 |-> c1, start1 |-> s1, end1 |-> e1,
   chrom2 |-> c2, start2 |-> s2, end2 |-> e2, name |-> n]

LoopPool ==
  { Loop("chr1", 0, 2, "chr1", 6, 8, "k"),
    Loop("chr1", 6, 9, "chr1", 0, 2, "l"),
    Loop("chr1", 7, 9, "chr2", 0, 2, "m"),
    Loop("chr1", 1, 5, "chr1", 1, 5, "n"),
    Loop("chrUn", 0, 2, "chr1", 0, 2, "o") }

\* read_bedpe gives the table a RangeIndex: row k (0-based) has label k.
WithLoopIndex(rows) == [k \in 1..Len(rows) |-> with_column(rows[k], "idx", k - 1)]

LoopTables == {WithLoopIndex(rows) : rows \in SeqsUpTo(LoopPool, MaxFeatures)}

LoopKwargs == [mapq : {10, 30}, anchor_pad : {0, 1}, keep_dups : BOOLEAN]

\* The interval closed at its end.
_in_interval_closed(pos, start, end) == start <= pos /\ pos <= end

\* counts_loops.py:24-26
_in_interval(pos, start, end) == start <= pos /\ pos < end

\* str(row["name"]) if "name" in loops.columns else f"loop_{idx}"
loop_id(row, hasNameCol) ==
  IF hasNameCol THEN [syn |-> FALSE, name |-> row.name, idx |-> 0]
  ELSE [syn |-> TRUE, name |-> "loop", idx |-> row.idx]

\* counts_loops.py:58-63: the record is skipped before its mate is looked at.
loop_skips(aln, kw) ==
  \/ aln.unmapped \/ aln.mapq < kw.mapq
  \/ ~kw.keep_dups /\ aln.dup
  \/ ~aln.paired \/ aln.mate_chrom = "*"

\* counts_loops.py:65-68
mate_in_anchor2(aln, row, kw) ==
  /\ aln.mate_chrom = row.chrom2
  /\ _in_interval(aln.mate_pos, row.start2 - kw.anchor_pad, row.end2 + kw.anchor_pad)

\* counts_loops.py:72-77: which counter a pair of alleles goes to.
pair_counter(a, b) ==
  IF a = "maternal" /\ b = "maternal" THEN "mm"
  ELSE IF a = "paternal" /\ b = "paternal" THEN "pp"
  ELSE "amb"

ZeroCounters == [mm |-> 0, pp |-> 0, amb |-> 0]

NoRecord == <<>>

InitCount ==
  /\ kfeat \in {"peaks", "loops"}
  /\ ktable \in (IF kfeat = "peaks" THEN PeakTables ELSE LoopTables)
  /\ kname \in BOOLEAN
  /\ kkw \in (IF kfeat = "peaks" THEN PeakKwargs ELSE LoopKwargs)
  /\ krow = 1 /\ kalns = <<>> /\ kpos = 0 /\ kaln = NoRecord /\ kallele = ""
  /\ kcnt = ZeroCounters /\ kout = <<>> /\ kpc = "row"

\* counts_peaks.py:26-31: the next peak, up to the start of the inner loop.
PeakStart ==
  /\ kfeat = "peaks" /\ kpc = "row" /\ krow <= Len(ktable)
  /\ LET row    == ktable[krow]
         center == (row.start + row.end) \div 2
         wstart == center - kkw.window_bp
         wend   == center + kkw.window_bp
     IN /\ ~fetch_raises(row.chrom)
        /\ kalns' = _iter_overlaps(row.chrom, wstart, wend, kkw.mapq, kkw.keep_dups)
  /\ kpos' = 1 /\ kcnt' = ZeroCounters /\ kpc' = "records"
  /\ UNCHANGED <<restK, kfeat, ktable, kname, kkw, krow, kaln, kallele, kout>>

\* counts_peaks.py:10: fetch on a contig the file does not have raises.
PeakRaise ==
  /\ kfeat = "peaks" /\ kpc = "row" /\ krow <= Len(ktable)
  /\ fetch_raises(ktable[krow].chrom)
  /\ kpc' = "raised"
  /\ UNCHANGED <<restK, kfeat, ktable, kname, kkw, krow, kalns, kpos, kaln, kallele,
                 kcnt, kout>>

\* counts_peaks.py:31-36: one record the generator yields.
PeakRecord ==
  /\ kfeat = "peaks" /\ kpc = "records" /\ kpos <= Len(kalns)
  /\ LET aln    == kalns[kpos]
         allele == allele_from_rg(aln)
     IN /\ kaln' = aln
        /\ kallele' = allele
        /\ kcnt' = IF allele = "maternal" THEN [kcnt EXCEPT !.mm = @ + 1]
                   ELSE IF allele = "paternal" THEN [kcnt EXCEPT !.pp = @ + 1]
                   ELSE kcnt
  /\ kpos' = kpos + 1
  /\ UNCHANGED <<restK, kfeat, ktable, kname, kkw, krow, kalns, kout, kpc>>

\* counts_peaks.py:37-46: the row of the peak is appended.
PeakEmit ==
  /\ kfeat = "peaks" /\ kpc = "records" /\ kpos > Len(kalns)
  /\ LET row == ktable[krow]
     IN kout' = Append(kout, [peak_id  |-> peak_id(row, kname),
                              chrom    |-> row.chrom,
                              start    |-> row.start,
                              end      |-> row.end,
                              maternal |-> kcnt.mm,
                              paternal |-> kcnt.pp])
  /\ krow' = krow + 1 /\ kpc' = "row"
  /\ UNCHANGED <<restK, kfeat, ktable, kname, kkw, kalns, kpos, kaln, kallele, kcnt>>

\* counts_loops.py:48-57: the next loop, up to the start of the inner loop.
LoopStart ==
  /\ kfeat = "loops" /\ kpc = "row" /\ krow <= Len(ktable)
  /\ LET row == ktable[krow]
         a1s == row.start1 - kkw.anchor_pad
         a1e == row.end1 + kkw.anchor_pad
     IN /\ ~fetch_raises(row.chrom1)
        /\ kalns' = fetch(row.chrom1, Max2(0, a1s), a1e)
  /\ kpos' = 1 /\ kcnt' = ZeroCounters /\ kpc' = "records"
  /\ UNCHANGED <<restK, kfeat, ktable, kname, kkw, krow, kaln, kallele, kout>>

\* counts_loops.py:57: fetch on a contig the file does not have raises.
LoopRaise ==
  /\ kfeat = "loops" /\ kpc = "row" /\ krow <= Len(ktable)
  /\ fetch_raises(ktable[krow].chrom1)
  /\ kpc' = "raised"
  /\ UNCHANGED <<restK, kfeat, ktable, kname, kkw, krow, kalns, kpos, kaln, kallele,
                 kcnt, kout>>

\* counts_loops.py:57-77: one record fetch returns.
LoopRecord ==
  /\ kfeat = "loops" /\ kpc = "records" /\ kpos <= Len(kalns)
  /\ LET aln == kalns[kpos]
         row == ktable[krow]
     IN /\ kaln' = aln
        /\ IF loop_skips(aln, kkw) \/ ~mate_in_anchor2(aln, row, kkw)
           THEN kallele' = "" /\ kcnt' = kcnt
           ELSE LET a == allele_from_rg(aln)
                    b == allele_from_rg(aln)
                IN /\ kallele' = a
                   /\ kcnt' = [kcnt EXCEPT ![pair_counter(a, b)] = @ + 1]
  /\ kpos' = kpos + 1
  /\ UNCHANGED <<restK, kfeat, ktable, kname, kkw, krow, kalns, kout, kpc>>

\* counts_loops.py:79-92: the row of the loop is appended.
LoopEmit ==
  /\ kfeat = "loops" /\ kpc = "records" /\ kpos > Len(kalns)
  /\ LET row == ktable[krow]
     IN kout' = Append(kout, [loop_id |-> loop_id(row, kname),
                              chrom1 |-> row.chrom1, start1 |-> row.start1,
                              end1 |-> row.end1,
                              chrom2 |-> row.chrom2, start2 |-> row.start2,
                              end2 |-> row.end2,
                              maternal_pairs  |-> kcnt.mm,
                              paternal_pairs  |-> kcnt.pp,
                              ambiguous_pairs |-> kcnt.amb])
  /\ krow' = krow + 1 /\ kpc' = "row"
  /\ UNCHANGED <<restK, kfeat, ktable, kname, kkw, kalns, kpos, kaln, kallele, kcnt>>

\* counts_peaks.py:47 and counts_loops.py:94
CountReturn ==
  /\ kpc = "row" /\ krow > Len(ktable)
  /\ kpc' = "done"
  /\ UNCHANGED <<restK, kfeat, ktable, kname, kkw, krow, kalns, kpos, kaln, kallele,
                 kcnt, kout>>

NextCount ==
  \/ PeakStart \/ PeakRaise \/ PeakRecord \/ PeakEmit
  \/ LoopStart \/ LoopRaise \/ LoopRecord \/ LoopEmit
  \/ CountReturn

InitK ==
  /\ IdleDispatch /\ IdleFdr /\ IdleClassify /\ IdleStats /\ InitCount /\ IdleValidate
  /\ IdlePhase

SpecCount == InitK /\ [][NextCount]_vars

\* ------------------------------------------------- run_local_validation
\* Tables of at most MaxValRows loop calls.  A z-score is kept as the pair
\* num, den2 standing for num / sqrt(den2): with n rows, diff d_k, S the sum
\* of the diffs and V = n * (sum of d_k^2) - S^2 = n^2 * variance,
\* (d_k - mean) / std = (n * d_k - S) / sqrt(V).
MaxValRows == 2
ValCounts == {0, 1, 2}
ValCalls == {"Maternal", "Balanced"}

ValRows(withM, withP) ==
  IF withM /\ withP THEN [m : ValCounts, p : ValCounts, bias_call : ValCalls]
  ELSE IF withM THEN [m : ValCounts, bias_call : ValCalls]
  ELSE IF withP THEN [p : ValCounts, bias_call : ValCalls]
  ELSE [bias_call : ValCalls]

RECURSIVE SumSeq(_)
SumSeq(q) == IF q = <<>> THEN 0 ELSE Head(q) + SumSeq(Tail(q))

\* The variance taken as computed, zero included.
std2_raw(V, n) == V

\* validate_local.py:60-62: std = 1.0 when np.std gives 0.0; as a square,
\* against the numerators scaled by n.
std2_or_one(V, n) == IF V = 0 THEN n * n ELSE V

\* validate_local.py:58-65
zscores(t) ==
  LET n    == Len(t)
      diff == [k \in 1..n |-> t[k].m - t[k].p]
      S    == SumSeq(diff)
      V    == n * SumSeq([k \in 1..n |-> diff[k] * diff[k]]) - S * S
  IN [k \in 1..n |-> [num |-> n * diff[k] - S, den2 |-> std2_or_one(V, n)]]

\* The float 0.0 as a z-score.
ZeroZ == [num |-> 0, den2 |-> 1]

\* 2.0 * norm.sf(np.abs(z)): kept as abs(z), the p-value being 1.0 exactly
\* when abs(z) is 0.
two_sided_p(z) == [absz |-> [num |-> Abs(z.num), den2 |-> z.den2]]

\* The float 1.0 as a p-value.
OneP == two_sided_p(ZeroZ)

\* out = loop_calls, without the copy: the columns land in the caller's table.
copy_aliases == FALSE

\* validate_local.py:50: out = loop_calls.copy() is a table of its own.
copy_detaches == TRUE

\* validate_local.py:50-69
run_local_validation(t, withM, withP) ==
  IF ~(withM /\ withP)
  THEN [k \in 1..Len(t) |->
          with_column(with_column(t[k], "local_enrichment_z", ZeroZ),
                      "local_enrichment_p", OneP)]
  ELSE LET z == zscores(t)
       IN [k \in 1..Len(t) |->
             with_column(with_column(t[k], "local_enrichment_z", z[k]),
                         "local_enrichment_p", two_sided_p(z[k]))]

InitValidate ==
  /\ hasM \in BOOLEAN /\ hasP \in BOOLEAN
  /\ \E t \in SeqsUpTo(ValRows(hasM, hasP), MaxValRows) : loop_calls = WithId(t)
  /\ vout = <<>> /\ vpc = "call"

\* validate_local.py:8-69, one call.
RunLocalValidation ==
  /\ vpc = "call"
  /\ vout' = run_local_validation(loop_calls, hasM, hasP)
  /\ loop_calls' = IF copy_detaches THEN loop_calls ELSE vout'
  /\ vpc' = "done"
  /\ UNCHANGED <<restV, hasM, hasP>>

NextValidate == RunLocalValidation

InitV ==
  /\ IdleDispatch /\ IdleFdr /\ IdleClassify /\ IdleStats /\ IdleCount /\ InitValidate
  /\ IdlePhase

SpecValidate == InitV /\ [][NextValidate]_vars

\* ------------------------------------------------------------- phase
\* The phase command from the reading of its inputs on.  The files have at
\* most MaxPhaseRows rows; only the numbers of their columns and rows, the
\* handles opened and closed and the fetch calls made are kept.
MaxPhaseRows == 2

\* bed.py:4, the names read_bed has for the columns
BedNamed == 6

\* bedpe.py:23-25, the columns read_bedpe insists on
BedpeRequired == 6

\* counts_peaks.py:27, the columns count_peaks reads from every row
PeakRequired == 3

\* cli.py:124-145: the handles one call of _count_parallel opens, one for
\* the sequential path, else one per chunk submitted.
handles_of_count_parallel(n, t) ==
  IF n = 0 \/ t <= 1 THEN 1
  ELSE LET cs == (n + t - 1) \div t
       IN Cardinality({i \in 0..(t - 1) : i * cs < n})

\* A module-level name holds a value v and has been written n times since
\* import: bam.py:28-29 compile the default patterns, the pseudocount is
\* the constant of the constants module.
ImportGlobals ==
  [MAT_RG_PATTERN |-> [v |-> "default", n |-> 0],
   PAT_RG_PATTERN |-> [v |-> "default", n |-> 0],
   PSEUDOCOUNT    |-> [v |-> PSEUDOCOUNT, n |-> 0]]

Write(g, name, val) == [g EXCEPT ![name] = [v |-> val, n |-> @.n + 1]]

\* Both patterns compiled from whatever the options hold.
set_rg_patterns_always(g, maternal_pattern, paternal_pattern) ==
  Write(Write(g, "MAT_RG_PATTERN", maternal_pattern), "PAT_RG_PATTERN", paternal_pattern)

\* bam.py:32-51: a pattern is replaced only when its option is not empty;
\* None and "" both leave the default in place.
set_rg_patterns(g, maternal_pattern, paternal_pattern) ==
  LET g1 == IF maternal_pattern # "" THEN Write(g, "MAT_RG_PATTERN", maternal_pattern)
            ELSE g
  IN IF paternal_pattern # "" THEN Write(g1, "PAT_RG_PATTERN", paternal_pattern) ELSE g1

\* The values the options of one run may resolve to (cli.py:229-290).
RunParams == [maternal_rgid : {"", "hapA"}, paternal_rgid : {"", "hapB"}, pseudocount : {1, 2}]

InitPhase ==
  /\ params \in RunParams
  /\ globals = ImportGlobals
  /\ peak_cols \in (PeakRequired - 1)..(PeakRequired + 1)
  /\ loop_cols \in (BedpeRequired - 1)..(BedpeRequired + 1)
  /\ npeaks \in 1..MaxPhaseRows
  /\ nloops \in 1..MaxPhaseRows
  /\ threads_param \in 1..MaxThreads
  /\ validate_loops \in {"none", "local"}
  /\ ppc = "configure"
  /\ opened = 0 /\ closed = 0 /\ fetched = 0 /\ validated = FALSE /\ perr = ""

\* cli.py:295-301
Configure ==
  /\ ppc = "configure"
  /\ globals' = set_rg_patterns(Write(globals, "PSEUDOCOUNT", params.pseudocount),
                                params.maternal_rgid, params.paternal_rgid)
  /\ ppc' = "read_bed"
  /\ UNCHANGED <<restH, params, peak_cols, loop_cols, npeaks, nloops, threads_param,
                 validate_loops, opened, closed, fetched, validated, perr>>

\* cli.py:312 and bed.py:6-9: the columns are named, none is required.
ReadBed ==
  /\ ppc = "read_bed"
  /\ peak_cols <= BedNamed
  /\ ppc' = "read_bedpe"
  /\ UNCHANGED <<restH, params, globals, peak_cols, loop_cols, npeaks, nloops, threads_param,
                 validate_loops, opened, closed, fetched, validated, perr>>

\* cli.py:313 and bedpe.py:19-37, with the six coordinate columns there.
ReadBedpe ==
  /\ ppc = "read_bedpe"
  /\ ~(loop_cols < BedpeRequired)
  /\ ppc' = "phasing"
  /\ UNCHANGED <<restH, params, globals, peak_cols, loop_cols, npeaks, nloops, threads_param,
                 validate_loops, opened, closed, fetched, validated, perr>>

\* bedpe.py:24-25
ReadBedpeRaise ==
  /\ ppc = "read_bedpe"
  /\ loop_cols < BedpeRequired
  /\ perr' = "ValueError"
  /\ ppc' = "failed"
  /\ UNCHANGED <<restH, params, globals, peak_cols, loop_cols, npeaks, nloops, threads_param,
                 validate_loops, opened, closed, fetched, validated>>

\* cli.py:323-324
SeqOpenBam ==
  /\ ppc = "phasing"
  /\ threads_param <= 1
  /\ opened' = opened + 1
  /\ ppc' = "seq_peaks"
  /\ UNCHANGED <<restH, params, globals, peak_cols, loop_cols, npeaks, nloops, threads_param,
                 validate_loops, closed, fetched, validated, perr>>

\* cli.py:326-342: count_peaks fetches once per peak; stats and calls follow.
SeqCountPeaks ==
  /\ ppc = "seq_peaks"
  /\ peak_cols >= PeakRequired
  /\ fetched' = fetched + npeaks
  /\ ppc' = "seq_loops"
  /\ UNCHANGED <<restH, params, globals, peak_cols, loop_cols, npeaks, nloops, threads_param,
                 validate_loops, opened, closed, validated, perr>>

\* counts_peaks.py:27: a column that is not there is a KeyError on the first
\* row, before its fetch; cli.py:361-362 closes the handle on the way out.
SeqCountPeaksRaise ==
  /\ ppc = "seq_peaks"
  /\ peak_cols < PeakRequired
  /\ perr' = "KeyError"
  /\ closed' = closed + 1
  /\ ppc' = "failed"
  /\ UNCHANGED <<restH, params, globals, peak_cols, loop_cols, npeaks, nloops, threads_param,
                 validate_loops, opened, fetched, validated>>

\* cli.py:343-362: count_loops fetches once per loop; the handle is closed.
SeqCountLoops ==
  /\ ppc = "seq_loops"
  /\ fetched' = fetched + nloops
  /\ closed' = closed + 1
  /\ ppc' = "write"
  /\ UNCHANGED <<restH, params, globals, peak_cols, loop_cols, npeaks, nloops, threads_param,
                 validate_loops, opened, validated, perr>>

\* cli.py:366-386: _count_parallel on the peaks, then stats and calls.
ParCountPeaks ==
  /\ ppc = "phasing"
  /\ ~(threads_param <= 1)
  /\ peak_cols >= PeakRequired
  /\ opened' = opened + handles_of_count_parallel(npeaks, threads_param)
  /\ closed' = closed + handles_of_count_parallel(npeaks, threads_param)
  /\ fetched' = fetched + npeaks
  /\ ppc' = "par_loops"
  /\ UNCHANGED <<restH, params, globals, peak_cols, loop_cols, npeaks, nloops, threads_param,
                 validate_loops, validated, perr>>

\* cli.py:366-375 with counts_peaks.py:27 raising in every worker, each
\* after it opened its handle (cli.py:70) and before any fetch.
ParCountPeaksRaise ==
  /\ ppc = "phasing"
  /\ ~(threads_param <= 1)
  /\ peak_cols < PeakRequired
  /\ opened' = opened + handles_of_count_parallel(npeaks, threads_param)
  /\ closed' = closed + handles_of_count_parallel(npeaks, threads_param)
  /\ perr' = "KeyError"
  /\ ppc' = "failed"
  /\ UNCHANGED <<restH, params, globals, peak_cols, loop_cols, npeaks, nloops, threads_param,
                 validate_loops, fetched, validated>>

\* cli.py:387-408: _count_parallel on the loops, then stats and calls.
ParCountLoops ==
  /\ ppc = "par_loops"
  /\ opened' = opened + handles_of_count_parallel(nloops, threads_param)
  /\ closed' = closed + handles_of_count_parallel(nloops, threads_param)
  /\ fetched' = fetched + nloops
  /\ ppc' = IF validate_loops = "local" THEN "validate" ELSE "write"
  /\ UNCHANGED <<restH, params, globals, peak_cols, loop_cols, npeaks, nloops, threads_param,
                 validate_loops, validated, perr>>

\* cli.py:409-423
ValidateLocal ==
  /\ ppc = "validate"
  /\ opened' = opened + 1
  /\ closed' = closed + 1
  /\ validated' = TRUE
  /\ ppc' = "write"
  /\ UNCHANGED <<restH, params, globals, peak_cols, loop_cols, npeaks, nloops, threads_param,
                 validate_loops, fetched, perr>>

\* cli.py:431-433
WriteOutputs ==
  /\ ppc = "write"
  /\ ppc' = "done"
  /\ UNCHANGED <<restH, params, globals, peak_cols, loop_cols, npeaks, nloops, threads_param,
                 validate_loops, opened, closed, fetched, validated, perr>>

NextPhase ==
  \/ Configure
  \/ ReadBed \/ ReadBedpe \/ ReadBedpeRaise
  \/ SeqOpenBam \/ SeqCountPeaks \/ SeqCountPeaksRaise \/ SeqCountLoops
  \/ ParCountPeaks \/ ParCountPeaksRaise \/ ParCountLoops \/ ValidateLocal
  \/ WriteOutputs

InitH ==
  /\ IdleDispatch /\ IdleFdr /\ IdleClassify /\ IdleStats /\ IdleCount /\ IdleValidate
  /\ InitPhase

SpecPhase == InitH /\ [][NextPhase]_vars

\* ------------------------------------------------ claims on the dispatcher
Parallel == threads > 1 /\ Len(df) > 0
Submitted == {futures[k] : k \in 1..Len(futures)}
SubmitOver == pc \in {"collect", "unwinding", "raised", "returned"}

\* C1: whatever order the chunk workers finish in, the table _count_parallel
\* returns has one row per input row, and its k-th row is the count row of
\* the k-th input feature (parts are put together by chunk index).
C1_OrderPreserved ==
  (pc = "returned" /\ Parallel) =>
    /\ Len(ret) = Len(df)
    /\ \A k \in 1..Len(df) :
         /\ ret[k].chrom = df[k].chrom
         /\ ret[k].start = df[k].start
         /\ ret[k].end = df[k].end
         /\ hasName => ret[k].peak_id.name = df[k].name

\* A table with different rows was returned although a later chunk's worker
\* finished before an earlier chunk's.
C1_Witness ==
  /\ pc = "returned" /\ Parallel
  /\ Len(finished) >= 2 /\ finished[1] > finished[2]
  /\ df[1].start # df[Len(df)].start

\* C2: once the submit loop is over, the submitted chunks are contiguous
\* runs of input rows, and every input row lies in exactly one of them.
C2_ChunksPartition ==
  (SubmitOver /\ Parallel) =>
    /\ \A i \in Submitted :
         /\ Len(wsub[i]) > 0
         /\ \A j \in 1..Len(wsub[i]) :
              /\ wsub[i][j].idx \in 0..(Len(df) - 1)
              /\ wsub[i][j] = df[wsub[i][j].idx + 1]
              /\ j > 1 => wsub[i][j].idx = wsub[i][j - 1].idx + 1
    /\ \A k \in 0..(Len(df) - 1) :
         Cardinality({ij \in Submitted \X (1..Len(df)) :
                        /\ ij[2] <= Len(wsub[ij[1]])
                        /\ wsub[ij[1]][ij[2]].idx = k}) = 1

\* Several chunks were submitted for a table that does not split evenly.
C2_Witness ==
  /\ SubmitOver /\ Parallel
  /\ Len(futures) >= 2
  /\ Len(wsub[futures[1]]) # Len(wsub[futures[Len(futures)]])

\* C3: for every worker count, the table _count_parallel returns is the
\* table count_peaks gives for the whole input on one handle: same counts,
\* same order, same ids (a synthetic id carries the row's label in the full
\* table); and the call raises exactly when counting the whole input would.
C3_SameAsSequential ==
  /\ pc = "returned" => ret = count_peaks(df, hasName, Kwargs)
  /\ pc \in {"returned", "raised"} =>
       (pc = "raised" <=> \E k \in 1..Len(df) : fetch_raises(df[k].chrom))

\* A parallel run returned synthetic ids for rows of a chunk other than the
\* first.
C3_Witness ==
  /\ pc = "returned" /\ Parallel /\ ~hasName
  /\ Len(futures) >= 2
  /\ ret[Len(ret)].peak_id.idx = Len(df) - 1
  /\ ret[Len(ret)].maternal # ret[1].maternal

\* C4: in a parallel dispatch the caller opens no handle, every handle is
\* obtained by one thread only and fetched on by that thread only, and a
\* worker's handle is the one it opened itself.
C4_ExclusiveHandles ==
  Parallel =>
    /\ \A h \in DOMAIN handles :
         /\ Cardinality(handles[h].openers) <= 1
         /\ handles[h].users \subseteq handles[h].openers
         /\ MainTid \notin handles[h].openers
    /\ \A i \in 0..(MaxThreads - 1) :
         wpc[i] \in {"running", "done", "failed"} =>
           handles[whandle[i]].openers = {Tid(i)}

\* Two workers are in the middle of counting at the same time, each having
\* fetched on its handle.
C4_Witness ==
  \E i, j \in 0..(MaxThreads - 1) :
    /\ i # j
    /\ wpc[i] = "running" /\ wpc[j] = "running"
    /\ Tid(i) \in handles[whandle[i]].users
    /\ Tid(j) \in handles[whandle[j]].users

SomeWorkerFailed == \E i \in 0..(MaxThreads - 1) : wpc[i] = "failed"

\* C5: once the counting function has raised in a chunk worker, the call
\* never returns a table (not even one made of the chunks that succeeded), no
\* chunk is submitted or completed twice, and the call is either still on
\* its way out or has raised.
C5_FailurePropagates ==
  SomeWorkerFailed =>
    /\ pc # "returned"
    /\ ret = <<>>
    /\ \A a, b \in 1..Len(futures) : futures[a] = futures[b] => a = b
    /\ \A a, b \in 1..Len(finished) : finished[a] = finished[b] => a = b
    /\ pc = "raised" \/ ENABLED Next

\* The call raised although another chunk's worker had succeeded.
C5_Witness ==
  /\ pc = "raised" /\ Parallel
  /\ \E i, j \in 0..(MaxThreads - 1) : wpc[i] = "failed" /\ wpc[j] = "done"
  /\ DOMAIN results # {}

\* ---------------------------------------------------- claims on bh_fdr
NPvals == Len(pvals)

\* The rank (from 1) the stable ascending sort gives feature i (from 1).
RankOf(i) ==
  1 + Cardinality({j \in 1..NPvals :
        FracLt(pvals[j], pvals[i]) \/ (FracEq(pvals[j], pvals[i]) /\ j < i)})

\* The feature (from 1) at rank r.
AtRank(r) == CHOOSE i \in 1..NPvals : RankOf(i) = r

\* The Benjamini-Hochberg step-up value of feature i: the least p_(j) * n / j
\* over the ranks j at or above its own.
StepUp(i) ==
  LET cands == {adjusted(pvals[AtRank(j)], NPvals, j) : j \in RankOf(i)..NPvals}
  IN CHOOSE x \in cands : \A y \in cands : FracLeq(x, y)

\* C6: read in ascending order of p-value, the q-values bh_fdr returns never
\* decrease.
C6_MonotoneInP ==
  fpc = "done" =>
    \A a, b \in 1..NPvals : FracLeq(pvals[a], pvals[b]) => FracLeq(fdr[a], fdr[b])

\* C7: bh_fdr returns as many values as it was given, each in [0,1], and the
\* value at position i belongs to feature i: it is at most p_i * n / rank_i.
C7_RangeAndPlace ==
  fpc = "done" =>
    /\ Len(fdr) = NPvals
    /\ \A i \in 1..NPvals :
         /\ FracLeq(Frac(0, 1), fdr[i]) /\ FracLeq(fdr[i], Frac(1, 1))
         /\ FracLeq(fdr[i], adjusted(pvals[i], NPvals, RankOf(i)))

\* bh_fdr returned for an input whose largest raw adjusted value exceeds 1 and
\* whose features are not given in ascending order.
C7_Witness ==
  /\ fpc = "done" /\ NPvals >= 2
  /\ \E i \in 1..NPvals : FracLt(Frac(1, 1), adjusted(pvals[i], NPvals, RankOf(i)))
  /\ FracLt(pvals[2], pvals[1])

\* C8: every feature receives the Benjamini-Hochberg step-up value, the
\* minimum of p_(j) * n / j over the ranks j at or above its own.
C8_StepUp ==
  fpc = "done" => \A i \in 1..NPvals : FracEq(fdr[i], StepUp(i))

\* C9: features with equal p-values receive equal q-values.
C9_TiesEqual ==
  fpc = "done" =>
    \A a, b \in 1..NPvals : FracEq(pvals[a], pvals[b]) => FracEq(fdr[a], fdr[b])

\* -------------------------------------------------- claims on _classify
\* C10: _classify returns Undetermined exactly when m + p < min_reads or an
\* ambiguous fraction is given and exceeds max_ambiguous_frac, whatever q,
\* log2_ratio, min_fold and min_abs_log2 are.
C10_UndeterminedIff ==
  cout \notin {"", "idle"} =>
    (cout = "Undetermined" <=>
       \/ cin.m + cin.p < cin.thr.min_reads
       \/ cin.ambiguous_frac.some /\ cin.ambiguous_frac.v > cin.thr.max_ambiguous_frac)

\* Undetermined was returned for counts, q and ratio that would have made a
\* Maternal call but for the ambiguous fraction.
C10_Witness ==
  /\ cout = "Undetermined"
  /\ cin.m + cin.p >= cin.thr.min_reads
  /\ cin.q <= cin.thr.fdr
  /\ cin.log2_ratio.some /\ Abs(cin.log2_ratio.v) >= cin.thr.min_abs_log2
  /\ cin.m >= Max2(1, fold_of(cin.p, cin.thr.min_fold))

\* C11: _classify returns one of the four calls, the outcome of the first
\* rule that matches, in the order (1) m + p < min_reads -> Undetermined,
\* (2) ambiguous_frac > max_ambiguous_frac -> Undetermined, (3) q > fdr ->
\* Balanced, (4) |log2_ratio| < min_abs_log2 -> Balanced, (5) m >= max(1,
\* floor(p * min_fold)) -> Maternal, (6) p >= max(1, floor(m * min_fold)) ->
\* Paternal, (7) otherwise Balanced.
RuleMatches(k) ==
  CASE k = 1 -> cin.m + cin.p < cin.thr.min_reads
    [] k = 2 -> cin.ambiguous_frac.some
                /\ cin.ambiguous_frac.v > cin.thr.max_ambiguous_frac
    [] k = 3 -> cin.q > cin.thr.fdr
    [] k = 4 -> IF cin.log2_ratio.some
                THEN /\ cin.log2_ratio.v < cin.thr.min_abs_log2
                     /\ 0 - cin.log2_ratio.v < cin.thr.min_abs_log2
                ELSE abs_log2_ratio_below(cin.m, cin.p, cin.thr.min_abs_log2)
    [] k = 5 -> \E b \in 1..(MaxCount * 2 + 1) :
                  /\ cin.m >= b
                  /\ b >= 1
                  /\ 10 * b >= cin.p * cin.thr.min_fold - 9
                  /\ (b = 1 \/ 10 * b <= cin.p * cin.thr.min_fold)
    [] k = 6 -> \E b \in 1..(MaxCount * 2 + 1) :
                  /\ cin.p >= b
                  /\ 10 * b >= cin.m * cin.thr.min_fold - 9
                  /\ (b = 1 \/ 10 * b <= cin.m * cin.thr.min_fold)
    [] k = 7 -> TRUE

RuleOutcome == <<"Undetermined", "Undetermined", "Balanced", "Balanced",
                 "Maternal", "Paternal", "Balanced">>

FirstRule == CHOOSE k \in 1..7 : RuleMatches(k) /\ \A j \in 1..(k - 1) : ~RuleMatches(j)

C11_FirstMatchingRule ==
  cout \notin {"", "idle"} =>
    /\ cout \in {"Maternal", "Paternal", "Balanced", "Undetermined"}
    /\ cout = RuleOutcome[FirstRule]

\* A call decided by the last rule: significant and not a small effect, but
\* neither count reaches the fold bound of the other.
C11_Witness ==
  /\ cout = "Balanced"
  /\ FirstRule = 7
  /\ cin.m > 0 /\ cin.p > 0

\* -------------------------------------------- claims on the statistics
\* C12: through compute_peak_stats and call_bias_for_peaks with the default
\* thresholds, the peak count table (maternal 10, paternal 0), (maternal 0,
\* paternal 10) gives total = [10, 10] and bias_call = [Maternal, Paternal],
\* in the order of the input rows.
TenZeroTable ==
  /\ kind = "peaks" /\ thresholds = DefaultThresholds
  /\ Len(df_counts) = 2
  /\ df_counts[1].maternal = 10 /\ df_counts[1].paternal = 0
  /\ df_counts[2].maternal = 0 /\ df_counts[2].paternal = 10

C12_TenZeroCalls ==
  TenZeroTable =>
    /\ stage \in {"stats", "calls"} =>
         /\ Len(stats_df) = 2
         /\ stats_df[1].total = 10 /\ stats_df[2].total = 10
    /\ stage = "calls" =>
         /\ Len(calls_df) = 2
         /\ calls_df[1].id = 1 /\ calls_df[2].id = 2
         /\ calls_df[1].total = 10 /\ calls_df[2].total = 10
         /\ calls_df[1].bias_call = "Maternal"
         /\ calls_df[2].bias_call = "Paternal"

\* Both functions have run on that table.
C12_Witness == TenZeroTable /\ stage = "calls" /\ Len(calls_df) = 2

\* C19: a feature with m = 0 and p = 0 gets total 0, log2_ratio 0.0 and
\* p_value 1.0, every quotient having a non-zero denominator; a loop with
\* m + p + ambiguous_pairs = 0 gets ambiguous_frac 0; a loop count table
\* without the ambiguous_pairs column is read as ambiguous_pairs = 0 in
\* every row.
C19_ZeroEvidence ==
  stage \in {"stats", "calls"} =>
    /\ Len(stats_df) = Len(df_counts)
    /\ kind = "peaks" =>
         \A k \in 1..Len(stats_df) :
           /\ stats_df[k].log2_ratio[2] # 0 /\ stats_df[k].p_value[2] # 0
           /\ (df_counts[k].maternal = 0 /\ df_counts[k].paternal = 0) =>
                /\ stats_df[k].total = 0
                /\ stats_df[k].log2_ratio[1] = stats_df[k].log2_ratio[2]
                /\ stats_df[k].p_value[1] = stats_df[k].p_value[2]
    /\ kind = "loops" =>
         \A k \in 1..Len(stats_df) :
           /\ stats_df[k].log2_ratio_pairs[2] # 0 /\ stats_df[k].p_value_pairs[2] # 0
           /\ stats_df[k].ambiguous_frac[2] # 0
           /\ (df_counts[k].maternal_pairs = 0 /\ df_counts[k].paternal_pairs = 0) =>
                /\ stats_df[k].total_pairs = 0
                /\ stats_df[k].log2_ratio_pairs[1] = stats_df[k].log2_ratio_pairs[2]
                /\ stats_df[k].p_value_pairs[1] = stats_df[k].p_value_pairs[2]
           /\ stats_df[k].m + stats_df[k].p + stats_df[k].ambiguous_pairs = 0 =>
                stats_df[k].ambiguous_frac[1] = 0
           /\ ~hasAmbiguous =>
                stats_df[k].ambiguous_pairs = 0 /\ stats_df[k].ambiguous_frac[1] = 0

\* compute_loop_stats has run on a table without the ambiguous_pairs column
\* holding a loop with no evidence next to one with evidence.
C19_Witness ==
  /\ stage = "stats" /\ kind = "loops" /\ ~hasAmbiguous
  /\ \E j, k \in 1..Len(stats_df) :
       /\ stats_df[j].m = 0 /\ stats_df[j].p = 0
       /\ stats_df[k].m > 0

\* ---------------------------------------------- claims on the counting
\* allele_from_rg has just been called on the record kaln.
Resolved == kpc \notin {"idle"} /\ kallele # "" /\ kaln # NoRecord

\* C13: a record whose tag matches both the maternal and the paternal
\* pattern resolves to Maternal.
C13_DualMatchMaternal ==
  (Resolved /\ kaln.rg.has /\ kaln.rg.mat /\ kaln.rg.pat) => kallele = "maternal"

PeakEvidence(row, kw, which) ==
  LET center == CHOOSE c \in 0..(row.start + row.end) :
                  2 * c <= row.start + row.end /\ row.start + row.end < 2 * c + 2
  IN {i \in 1..Len(BamRecords) :
        /\ BamRecords[i].chrom = row.chrom
        /\ BamRecords[i].rend # NoEnd
        /\ BamRecords[i].rstart < center + kw.window_bp
        /\ BamRecords[i].rend > center - kw.window_bp
        /\ ~BamRecords[i].unmapped
        /\ BamRecords[i].mapq >= kw.mapq
        /\ (kw.keep_dups \/ ~BamRecords[i].dup)
        /\ allele_from_rg(BamRecords[i]) = which}

\* C15: count_peaks returns one row per peak, in table order, with the
\* peak's id and coordinates; maternal (paternal) is the number of records
\* overlapping [center - W, center + W), center = floor((start + end) / 2),
\* that are mapped, have quality >= mapq, are not duplicates unless
\* keep_dups, and resolve to maternal (paternal).
C15_PeakRows ==
  (kfeat = "peaks" /\ kpc = "done") =>
    /\ Len(kout) = Len(ktable)
    /\ \A k \in 1..Len(ktable) :
         /\ kout[k].peak_id = (IF kname THEN [syn |-> FALSE, name |-> ktable[k].name, idx |-> 0]
                               ELSE [syn |-> TRUE, name |-> "peak", idx |-> k - 1])
         /\ kout[k].chrom = ktable[k].chrom
         /\ kout[k].start = ktable[k].start /\ kout[k].end = ktable[k].end
         /\ kout[k].maternal = Cardinality(PeakEvidence(ktable[k], kkw, "maternal"))
         /\ kout[k].paternal = Cardinality(PeakEvidence(ktable[k], kkw, "paternal"))

\* count_peaks returned two rows, one of them with evidence for both
\* alleles while a record resolving to None overlaps its window.
C15_Witness ==
  /\ kfeat = "peaks" /\ kpc = "done" /\ Len(kout) = 2
  /\ \E k \in 1..2 :
       /\ kout[k].maternal > 0 /\ kout[k].paternal > 0
       /\ PeakEvidence(ktable[k], kkw, "None") # {}

\* The records of the file that qualify for the loop row: passing the
\* filters, paired with a mate on a contig, overlapping anchor 1's padded
\* window, the mate starting in anchor 2's padded window on chrom2.
LoopEvidence(row, kw) ==
  {i \in 1..Len(BamRecords) :
     LET r == BamRecords[i]
     IN /\ r.chrom = row.chrom1
        /\ r.rstart < row.end1 + kw.anchor_pad
        /\ (IF r.rend = NoEnd THEN r.rstart + 1 ELSE r.rend) > row.start1 - kw.anchor_pad
        /\ ~r.unmapped /\ r.mapq >= kw.mapq /\ (kw.keep_dups \/ ~r.dup)
        /\ r.paired /\ r.mate_chrom # "*"
        /\ r.mate_chrom = row.chrom2
        /\ row.start2 - kw.anchor_pad <= r.mate_pos
        /\ r.mate_pos < row.end2 + kw.anchor_pad}

C17_Frame ==
  [][(vpc = "call" /\ vpc' = "done") =>
       /\ loop_calls' = loop_calls
       /\ Len(vout') = Len(loop_calls)
       /\ \A k \in 1..Len(loop_calls) :
            /\ DOMAIN vout'[k] =
                 (DOMAIN loop_calls[k]) \cup {"local_enrichment_z", "local_enrichment_p"}
            /\ \A c \in DOMAIN loop_calls[k] : vout'[k][c] = loop_calls[k][c]]_vars

\* The function returned on a table of two rows whose calls differ and
\* whose z-scores are not zero.
C17_Witness ==
  /\ vpc = "done" /\ Len(vout) = 2
  /\ vout[1].bias_call # vout[2].bias_call
  /\ vout[1].local_enrichment_z.num # 0

\* Every row of the table has the same difference m - p.
SameDiff ==
  \A j, k \in 1..Len(loop_calls) :
    loop_calls[j].m - loop_calls[j].p = loop_calls[k].m - loop_calls[k].p

\* C18: run_local_validation returns for every table and every z it gives
\* is finite; when column m or p is missing, and when every row has the
\* same m - p (a single row included), every row gets z = 0.0 and p = 1.0.
C18_NeutralWhenDegenerate ==
  vpc \in {"call", "done"} =>
    /\ ENABLED RunLocalValidation \/ vpc = "done"
    /\ vpc = "done" =>
         /\ \A k \in 1..Len(vout) : vout[k].local_enrichment_z.den2 > 0
         /\ (~hasM \/ ~hasP \/ SameDiff) =>
              \A k \in 1..Len(vout) :
                /\ vout[k].local_enrichment_z.num = 0
                /\ vout[k].local_enrichment_p.absz.num = 0
                /\ vout[k].local_enrichment_p.absz.den2 > 0

\* The function returned on two rows with different counts and the same
\* difference.
C18_Witness ==
  /\ vpc = "done" /\ hasM /\ hasP /\ Len(vout) = 2
  /\ vout[1].m # vout[2].m /\ SameDiff

\* ------------------------------------------------ claims on the command
\* C20: when the peaks file or the loops file lacks a coordinate column, the
\* command fails before counting starts: no handle has been opened and no
\* fetch has been made when the error is raised.
C20_FatalBeforeCounting ==
  (ppc = "failed" /\ (peak_cols < PeakRequired \/ loop_cols < BedpeRequired)) =>
    opened = 0 /\ fetched = 0

\* C21 as stated: each pattern and the pseudocount is written exactly once
\* in a run, and no handle is opened before that.
C21_WrittenExactlyOnce ==
  /\ ppc = "configure" => opened = 0
  /\ ppc \notin {"idle", "configure"} =>
       /\ globals.MAT_RG_PATTERN.n = 1
       /\ globals.PAT_RG_PATTERN.n = 1
       /\ globals.PSEUDOCOUNT.n = 1

\* C21, amended: in one run the pseudocount is written exactly once and a
\* pattern once when its option is not empty, never otherwise; all of it
\* before the first handle is opened and the first fetch made, and from then
\* to the end of the run no step writes any of them.
C21_ConfiguredBeforeCounting ==
  /\ [](ppc = "configure" => (opened = 0 /\ fetched = 0))
  /\ [](ppc \notin {"idle", "configure"} =>
          /\ globals.PSEUDOCOUNT.n = 1
          /\ globals.MAT_RG_PATTERN.n = (IF params.maternal_rgid # "" THEN 1 ELSE 0)
          /\ globals.PAT_RG_PATTERN.n = (IF params.paternal_rgid # "" THEN 1 ELSE 0))
  /\ [][ppc # "configure" => globals' = globals]_vars

\* A run with workers has ended with one pattern taken from its option and
\* the other left at its default.
C21_Witness ==
  /\ ppc = "done" /\ threads_param > 1 /\ opened > 1
  /\ params.maternal_rgid = "" /\ params.paternal_rgid # ""
  /\ globals.PAT_RG_PATTERN = [v |-> "hapB", n |-> 1]
  /\ globals.MAT_RG_PATTERN = [v |-> "default", n |-> 0]

\* C22: every emitted log2_ratio is log2((m + c) / (p + c)) with c the
\* pseudocount resolved for the run.
C22_RunPseudocountUsed ==
  stage \in {"stats", "calls"} =>
    \A k \in 1..Len(stats_df) :
      IF kind = "peaks"
      THEN FracEq(stats_df[k].log2_ratio,
                  Frac(stats_df[k].maternal + run_pseudocount,
                       stats_df[k].paternal + run_pseudocount))
      ELSE FracEq(stats_df[k].log2_ratio_pairs,
                  Frac(stats_df[k].maternal_pairs + run_pseudocount,
                       stats_df[k].paternal_pairs + run_pseudocount))

\* C23: whenever loop validation is "local", the local validator has run on
\* the loop calls by the time they are handed to the output step, for
\* threads = 1 as well as for threads > 1.
C23_ValidatedWhenLocal ==
  (ppc \in {"write", "done"} /\ validate_loops = "local") => validated

\* C24: when threads > 1 and the table has at least `threads` rows, the
\* submit loop hands out exactly `threads` non-empty chunks, one worker per
\* chunk, each of size at most ceil(n / threads).
C24_ExactlyThreadsChunks ==
  (Parallel /\ SubmitOver /\ Len(df) >= threads) =>
    /\ Len(futures) = threads
    /\ \A i \in Submitted : Len(wsub[i]) \in 1..chunk_size

\* C25: a handle is closed at most once and only after it was opened, a
\* worker that is over has closed its handle, and when _count_parallel has
\* returned or raised no chunk worker is pending or running and every handle
\* that was opened has been closed exactly once.
C25_ClosedBeforeExit ==
  /\ \A h \in DOMAIN handles :
       handles[h].closes <= 1 /\ handles[h].closes <= handles[h].opens
  /\ \A i \in 0..(MaxThreads - 1) :
       wpc[i] \in {"done", "failed"} => handles[whandle[i]].closes = 1
  /\ pc \in {"returned", "raised"} =>
       /\ \A i \in 0..(MaxThreads - 1) : wpc[i] \in {"none", "done", "failed"}
       /\ \A h \in DOMAIN handles : handles[h].closes = handles[h].opens

\* The call has raised after one worker failed and another, which finished
\* later, ran to its end; both handles are closed.
C25_Witness ==
  /\ pc = "raised" /\ Parallel /\ Len(finished) >= 2
  /\ wpc[finished[1]] = "failed"
  /\ wpc[finished[Len(finished)]] = "done"
  /\ handles[whandle[finished[1]]].closes = 1
  /\ handles[whandle[finished[Len(finished)]]].closes = 1

\* C26: with min_fold >= 1.0 and min_reads >= 0, a Maternal call has m > p
\* and a Paternal call has p > m.
C26_DirectionAgrees ==
  (cout \in {"Maternal", "Paternal"} /\ cin.thr.min_fold >= 10 /\ cin.thr.min_reads >= 0) =>
    /\ cout = "Maternal" => cin.m > cin.p
    /\ cout = "Paternal" => cin.p > cin.m

\* C27: in the rows count_loops returns, one read pair (the records of one
\* query name) adds at most 1 to maternal_pairs + paternal_pairs +
\* ambiguous_pairs of a loop, so the sum of a loop is at most the number of
\* read pairs with a qualifying record.
C27_PairCountedOnce ==
  (kfeat = "loops" /\ kpc = "done") =>
    \A k \in 1..Len(kout) :
      kout[k].maternal_pairs + kout[k].paternal_pairs + kout[k].ambiguous_pairs
        <= Cardinality({BamRecords[i].qname : i \in LoopEvidence(ktable[k], kkw)})

====
